---- MODULE Spec2Model ----
(***************************************************************************)
(* State-machine model of the detection and fraud-signal engine:           *)
(*   backend/model/simple_detector.py      SimpleImageDetector             *)
(*   backend/model/transaction_analyzer.py TransactionAnalyzer             *)
(*   backend/model/detector.py             ImageAuthenticityDetector       *)
(*                                                                         *)
(* Fixed-point conventions.  A signal score and a fusion weight are held   *)
(* in hundredths (0.7 is 70, 0.25 is 25); total_score is their product, in *)
(* ten-thousandths; a confidence is held in hundred-thousandths (0.95 is   *)
(* 95000), so that the factors 0.3 and 0.6 of the reconciliation are exact.*)
(* Pixel measurements (DCT variance, noise statistics, contour areas, OCR  *)
(* findings, block correlations) are inputs drawn from small sets.         *)
(***************************************************************************)
EXTENDS Integers, Sequences, FiniteSets, TLC

VARIABLES
    pc,                    \* position of the request in detect_tampering
    image,                 \* the decoded image: format, size, embedded tags
    analyze_transactions,  \* the orchestrator's flag
    signals,               \* the four extractor outputs of the basic scorer
    basic_result,          \* SimpleImageDetector.detect_tampering's result
    transaction_analysis,  \* analyze_transaction_screenshot's result
    result,                \* ImageAuthenticityDetector.detect_tampering's result
    risk_input,            \* argument of _calculate_overall_risk
    risk_output,           \* its return value
    raised,                \* the extractors whose except branch ran
    response,              \* what analyze_image answers: status and body
    upload,                \* what the request carries in its 'image' part
    gray,                  \* pixel buffer handed to _analyze_visual_patterns
    visual_runs,           \* what its successive runs on gray returned
    ocr_text,              \* text handed to the fraud-pattern matcher
    text_result            \* what _analyze_text_content returns for it

vars == <<pc, image, analyze_transactions, signals, basic_result,
          transaction_analysis, result, risk_input, risk_output, raised,
          response, upload, gray, visual_runs, ocr_text, text_result>>

\* what no step of the detector writes: the request, and the state of the
\* analyzers run on their own
side == <<upload, gray, visual_runs, ocr_text, text_result>>

\* Python's None, and a dict not yet built.
None == [none |-> TRUE]

(***************************************************************************)
(* Bounds of the model.                                                    *)
(***************************************************************************)
\* Most fraud patterns whose matches hold a duplicate in one text.
MaxDup == 1
\* Most copy-paste regions the block search reports for one image.
MaxCopyPaste == 1
\* Longest indicator list handed to the risk aggregator on its own.
MaxIndicators == 4

(***************************************************************************)
(* Helpers standing for Python built-ins.                                  *)
(***************************************************************************)
Min(a, b) == IF a < b THEN a ELSE b

Max(a, b) == IF a > b THEN a ELSE b

\* len(range(start, stop, step)) for step > 0
RangeLen(start, stop, step) ==
    IF stop <= start THEN 0 ELSE (stop - start + step - 1) \div step

\* sep.join(parts)
RECURSIVE Join(_, _)
Join(parts, sep) ==
    IF Len(parts) = 0 THEN ""
    ELSE IF Len(parts) = 1 THEN parts[1]
    ELSE parts[1] \o sep \o Join(Tail(parts), sep)

RECURSIVE Sum(_)
Sum(s) == IF s = <<>> THEN 0 ELSE Head(s) + Sum(Tail(s))

RECURSIVE SumSq(_)
SumSq(s) == IF s = <<>> THEN 0 ELSE Head(s) * Head(s) + SumSq(Tail(s))

\* n copies of x
Repeat(x, n) == [i \in 1..n |-> x]

\* str.lower() on the tag values the model's images carry
lower(s) ==
    CASE s = "Adobe Photoshop CS6" -> "adobe photoshop cs6"
      [] s = "GIMP 2.10" -> "gimp 2.10"
      [] s = "MS Paint" -> "ms paint"
      [] s = "Google Pixel" -> "google pixel"
      [] s = "Photoshop" -> "photoshop"
      [] s = "GIMP" -> "gimp"
      [] s = "Paint.NET" -> "paint.net"
      [] s = "Canva" -> "canva"
      [] OTHER -> s

\* needle in hay, for the lower-cased strings above
Contains(needle, hay) ==
    \/ needle = hay
    \/ <<needle, hay>> \in
         { <<"photoshop", "adobe photoshop cs6">>,
           <<"gimp", "gimp 2.10">>,
           <<"paint", "ms paint">>,
           <<"paint", "paint.net">> }

\* the value of tag in the ordered tag map exif (a sequence of <<tag, value>>)
HasTag(exif, tag) == \E i \in 1..Len(exif) : exif[i][1] = tag

TagValue(exif, tag) == exif[CHOOSE i \in 1..Len(exif) : exif[i][1] = tag][2]

(***************************************************************************)
(* simple_detector.py: the four signal extractors.                         *)
(***************************************************************************)
Signal(suspicious, score, reason) ==
    [suspicious |-> suspicious, score |-> score, reason |-> reason]

\* Measurements the pixel data yields, in hundredths where fractional.
\* hf_variance: variance of the high-frequency DCT quadrant.
HfVariances == {5, 10, 5000, 10000, 20000}

\* <<mean_variance, std_variance>> of the 32x32 noise blocks.
NoiseStats == { <<0, 0>>, <<100, 50>>, <<100, 100>>, <<100, 120>>,
                <<100, 150>>, <<100, 200>> }

\* cv2.contourArea of every contour cv2.findContours returns.
ContourAreas == { <<>>, <<4>>, <<4, 20>>, <<20, 30>>,
                  <<11, 11, 11, 11, 11, 11, 1000>> }

block_size == 32

analyze_jpeg_compression(format, raises, hf_variance) ==
    IF format # "JPEG" THEN Signal(FALSE, 0, "Not a JPEG image")
    ELSE IF raises THEN Signal(FALSE, 0, "Analysis failed")
    ELSE IF hf_variance < 10
         THEN Signal(TRUE, 70, "Over-compressed regions detected")
    ELSE IF hf_variance > 10000
         THEN Signal(TRUE, 60, "Inconsistent compression artifacts")
    ELSE Signal(FALSE, 20, "Normal compression artifacts")

\* len(noise_variances): one entry per (i, j) of the two range() loops
NumNoiseBlocks(h, w) ==
    RangeLen(0, h - block_size, block_size) * RangeLen(0, w - block_size, block_size)

analyze_noise_patterns(h, w, raises, stats) ==
    LET mean_variance == stats[1]
        std_variance  == stats[2]
    IN  IF raises THEN Signal(FALSE, 0, "Analysis failed")
        ELSE IF NumNoiseBlocks(h, w) < 2
             THEN Signal(FALSE, 0, "Image too small for analysis")
        \* cv_noise = std/mean; cv_noise > 1.5 is 2*std > 3*mean
        ELSE IF mean_variance > 0 /\ 2 * std_variance > 3 * mean_variance
             THEN Signal(TRUE, 80, "Inconsistent noise patterns across regions")
        ELSE IF mean_variance > 0 /\ std_variance > mean_variance
             THEN Signal(TRUE, 50, "Moderate noise inconsistencies")
        ELSE Signal(FALSE, 10, "Consistent noise patterns")

IsSignificantArea(a) == a > 10

\* a failure of the edge analysis reported as a finding
analyze_edge_consistency_failure_flagged(raises, contours) ==
    LET edge_areas == SelectSeq(contours, IsSignificantArea)
        n == Len(edge_areas)
    IN  IF raises THEN Signal(TRUE, 60, "Analysis failed")
        ELSE IF Len(contours) = 0
             THEN Signal(FALSE, 0, "No significant edges detected")
        ELSE IF n < 2 THEN Signal(FALSE, 0, "Insufficient edge data")
        ELSE IF n * SumSq(edge_areas) > 5 * Sum(edge_areas) * Sum(edge_areas)
             THEN Signal(TRUE, 60, "Irregular edge patterns detected")
        ELSE Signal(FALSE, 10, "Consistent edge patterns")

analyze_edge_consistency(raises, contours) ==
    LET edge_areas == SelectSeq(contours, IsSignificantArea)
        n == Len(edge_areas)
    IN  IF raises THEN Signal(FALSE, 0, "Analysis failed")
        ELSE IF Len(contours) = 0
             THEN Signal(FALSE, 0, "No significant edges detected")
        ELSE IF n < 2 THEN Signal(FALSE, 0, "Insufficient edge data")
        \* std_area > mean_area * 2, squared: n*sum(x^2) > 5*sum(x)^2
        ELSE IF n * SumSq(edge_areas) > 5 * Sum(edge_areas) * Sum(edge_areas)
             THEN Signal(TRUE, 60, "Irregular edge patterns detected")
        ELSE Signal(FALSE, 10, "Consistent edge patterns")

software_tags == <<"Software", "ProcessingSoftware", "PhotoshopSettings">>

editing_software == <<"Photoshop", "GIMP", "Paint.NET", "Canva">>

timestamp_tags == <<"DateTime", "DateTimeOriginal", "DateTimeDigitized">>

\* the editors found, one per software tag present (inner loop breaks at the
\* first editor contained in the tag's value)
RECURSIVE EditorsFound(_, _)
EditorsFound(exif, tags) ==
    IF tags = <<>> THEN <<>>
    ELSE LET tag == Head(tags)
             hits == IF HasTag(exif, tag)
                     THEN { k \in 1..Len(editing_software) :
                              Contains(lower(editing_software[k]),
                                       lower(TagValue(exif, tag))) }
                     ELSE {}
             first == IF hits = {} THEN <<>>
                      ELSE << "Edited with " \o
                              editing_software[CHOOSE k \in hits :
                                                 \A m \in hits : k <= m] >>
         IN  first \o EditorsFound(exif, Tail(tags))

\* missing tags not held against the image
simple_analyze_metadata_tags_optional(exif, raises) ==
    LET editors == EditorsFound(exif, software_tags)
        timestamps == { TagValue(exif, timestamp_tags[k]) :
                          k \in { m \in 1..Len(timestamp_tags) :
                                    HasTag(exif, timestamp_tags[m]) } }
        stamps == IF Cardinality(timestamps) > 1
                  THEN <<"Inconsistent timestamps">> ELSE <<>>
        suspicious_indicators == editors \o stamps
        score == 40 * Len(editors) + 20 * Len(stamps)
    IN  IF raises THEN Signal(FALSE, 0, "Analysis failed")
        ELSE IF suspicious_indicators # <<>>
             THEN Signal(TRUE, Min(score, 100), Join(suspicious_indicators, "; "))
        ELSE Signal(FALSE, 5, "Normal metadata")

\* SimpleImageDetector._analyze_metadata
simple_analyze_metadata(exif, raises) ==
    LET no_exif == IF exif = <<>> THEN <<"No EXIF metadata">> ELSE <<>>
        editors == EditorsFound(exif, software_tags)
        timestamps == { TagValue(exif, timestamp_tags[k]) :
                          k \in { m \in 1..Len(timestamp_tags) :
                                    HasTag(exif, timestamp_tags[m]) } }
        stamps == IF Cardinality(timestamps) > 1
                  THEN <<"Inconsistent timestamps">> ELSE <<>>
        suspicious_indicators == no_exif \o editors \o stamps
        score == 30 * Len(no_exif) + 40 * Len(editors) + 20 * Len(stamps)
    IN  IF raises THEN Signal(FALSE, 0, "Analysis failed")
        ELSE IF suspicious_indicators # <<>>
             THEN Signal(TRUE, Min(score, 100), Join(suspicious_indicators, "; "))
        ELSE Signal(FALSE, 5, "Normal metadata")

(***************************************************************************)
(* simple_detector.py: SimpleImageDetector.detect_tampering, the fusion.   *)
(***************************************************************************)
jpeg_weight == 30
noise_weight == 30
edge_weight == 25
metadata_weight == 15

\* np.random.uniform(0.75, 0.90): samples of the half-open interval
ConfidenceDraws == {75000, 80000, 89990}

\* the score added whether or not the signal is suspicious
contribution_unconditional(signal, weight) == signal.score * weight

\* lines 55-56, 61-62, 67-68, 73-74
Contribution(signal, weight) ==
    IF signal.suspicious THEN signal.score * weight ELSE 0

total_score(sig) ==
    Contribution(sig.jpeg_compression, jpeg_weight)
    + Contribution(sig.noise_patterns, noise_weight)
    + Contribution(sig.edge_consistency, edge_weight)
    + Contribution(sig.metadata, metadata_weight)

\* a weight counted only when its signal is suspicious
max_score_suspicious_only(sig) ==
    (IF sig.jpeg_compression.suspicious THEN jpeg_weight ELSE 0)
    + (IF sig.noise_patterns.suspicious THEN noise_weight ELSE 0)
    + (IF sig.edge_consistency.suspicious THEN edge_weight ELSE 0)
    + (IF sig.metadata.suspicious THEN metadata_weight ELSE 0)

\* lines 58, 64, 70, 76: every weight is added, suspicious or not
max_score(sig) == jpeg_weight + noise_weight + edge_weight + metadata_weight

Detail(signal, label) ==
    IF signal.suspicious THEN <<label \o signal.reason>> ELSE <<>>

details_list(sig) ==
    Detail(sig.jpeg_compression, "JPEG compression: ")
    \o Detail(sig.noise_patterns, "Noise patterns: ")
    \o Detail(sig.edge_consistency, "Edge analysis: ")
    \o Detail(sig.metadata, "Metadata: ")

fused_confidence(sig) ==
    IF max_score(sig) > 0
    THEN Min((total_score(sig) * 1000) \div max_score(sig), 95000)
    ELSE 10000

\* the sample region drawn for a suspicious metadata signal as well
find_tampered_regions_any_signal(h, w, sig) ==
    IF sig.jpeg_compression.suspicious \/ sig.noise_patterns.suspicious
       \/ sig.edge_consistency.suspicious \/ sig.metadata.suspicious
    THEN << [x |-> w \div 4, y |-> h \div 4,
             width |-> w \div 3, height |-> h \div 3,
             confidence |-> Max(sig.jpeg_compression.score,
                                Max(sig.noise_patterns.score,
                                    sig.edge_consistency.score))] >>
    ELSE <<>>

\* SimpleImageDetector._find_tampered_regions
find_tampered_regions(h, w, sig) ==
    IF sig.jpeg_compression.suspicious \/ sig.noise_patterns.suspicious
       \/ sig.edge_consistency.suspicious
    THEN << [x |-> w \div 4, y |-> h \div 4,
             width |-> w \div 3, height |-> h \div 3,
             confidence |-> Max(sig.jpeg_compression.score,
                                Max(sig.noise_patterns.score,
                                    sig.edge_consistency.score))] >>
    ELSE <<>>

\* the all-clear override never taken
is_all_clear_never(details) == FALSE

\* line 86: if not details
is_all_clear(details) == details = <<>>

\* lines 49-108; draw is the value np.random.uniform returns if it is called
simple_detect_tampering(h, w, sig, draw) ==
    LET details == details_list(sig)
        all_clear == is_all_clear(details)
        base == [is_authentic |->
                     IF all_clear THEN TRUE ELSE fused_confidence(sig) < 40000,
                 confidence |->
                     IF all_clear THEN draw ELSE fused_confidence(sig),
                 details |->
                     IF all_clear
                     THEN Join(<<"No significant tampering indicators detected">>, "; ")
                     ELSE Join(details, "; "),
                 analysis_breakdown |-> sig]
        tampered_regions == find_tampered_regions(h, w, sig)
    IN  IF tampered_regions # <<>>
        THEN ("tampered_regions" :> tampered_regions) @@ base
        ELSE base

(***************************************************************************)
(* transaction_analyzer.py: the analyzers of the transaction chain.        *)
(* The OCR text, the block correlations and the edge densities are not     *)
(* held; what the analyzers find in them is an input.  The result keys     *)
(* that only echo those (extracted_text, banking_keywords_found,           *)
(* text_quality, visual_quality_score, location, analysis_timestamp) are   *)
(* left out of the records.                                                *)
(***************************************************************************)
Indicator(type, severity, description) ==
    [type |-> type, severity |-> severity, description |-> description]

IsHigh(i) == i.severity = "high"

IsMedium(i) == i.severity = "medium"

software_indicators == <<"photoshop", "gimp", "canva", "paint", "editor">>

NamesEditingSoftware(value) ==
    \E k \in 1..Len(software_indicators) :
        Contains(software_indicators[k], lower(value))

\* the scan of the tags not stopped at the first match
txn_analyze_metadata_last_match(img) ==
    LET exif_data == img.exif
        hits == { i \in 1..Len(exif_data) : NamesEditingSoftware(exif_data[i][2]) }
        last == CHOOSE i \in hits : \A j \in hits : i >= j
    IN  IF img.exif_raises
        THEN [metadata |-> None, suspicious |-> FALSE, reason |-> "Analysis failed"]
        ELSE [metadata |-> [format |-> img.format, size |-> img.size,
                            exif |-> exif_data],
              suspicious |-> (hits # {}) \/ exif_data = <<>>,
              reason |->
                  IF exif_data = <<>>
                  THEN "No EXIF metadata found (common in edited screenshots)"
                  ELSE IF hits # {}
                  THEN "Image editing software detected: " \o exif_data[last][2]
                  ELSE ""]

\* TransactionAnalyzer._analyze_metadata
txn_analyze_metadata(img) ==
    LET exif_data == img.exif
        hits == { i \in 1..Len(exif_data) : NamesEditingSoftware(exif_data[i][2]) }
        first == CHOOSE i \in hits : \A j \in hits : i <= j
    IN  IF img.exif_raises
        THEN [metadata |-> None, suspicious |-> FALSE, reason |-> "Analysis failed"]
        ELSE [metadata |-> [format |-> img.format, size |-> img.size,
                            exif |-> exif_data],
              suspicious |-> (hits # {}) \/ exif_data = <<>>,
              reason |->
                  IF exif_data = <<>>
                  THEN "No EXIF metadata found (common in edited screenshots)"
                  ELSE IF hits # {}
                  THEN "Image editing software detected: " \o exif_data[first][2]
                  ELSE ""]

\* What the regular expressions find in the OCR text: dup, the number of
\* fraud patterns whose matches hold a duplicate; inconsistent, more than one
\* amount token and more than one formatting; very_large, a 7+ digit amount.
\* A run of 7+ digits is cut by the general number pattern into matches with
\* equal (empty) groups, so very_large never comes without a duplicate.
TextFindings ==
    { t \in [raises : {FALSE}, dup : 0..MaxDup, inconsistent : BOOLEAN,
             very_large : BOOLEAN] : t.very_large => t.dup >= 1 }
    \cup { [raises |-> TRUE, dup |-> 0, inconsistent |-> FALSE, very_large |-> FALSE] }

\* TransactionAnalyzer._analyze_text_content
analyze_text_content(text) ==
    IF text.raises
    THEN [suspicious_text |-> FALSE, fraud_indicators |-> <<>>]
    ELSE [suspicious_text |-> text.dup > 0 \/ text.inconsistent,
          fraud_indicators |->
              Repeat(Indicator("duplicate_amounts", "high",
                               "Duplicate amounts detected"), text.dup)
              \o (IF text.inconsistent
                  THEN <<Indicator("inconsistent_formatting", "medium",
                                   "Inconsistent amount formatting detected")>>
                  ELSE <<>>)
              \o (IF text.very_large
                  THEN <<Indicator("unrealistic_amount", "medium",
                                   "Unusually large amounts")>>
                  ELSE <<>>)]

\* top-left offsets of the copy-paste blocks along one axis of length n:
\* range(0, n - block_size, block_size // 2)
BlockOffsets(n) ==
    { k * (block_size \div 2) :
        k \in 0..(RangeLen(0, n - block_size, block_size \div 2) - 1) }

\* some pair of blocks is not skipped as adjacent (line 282)
HasComparablePair(h, w) ==
    \/ \E y1, y2 \in BlockOffsets(h) : y2 - y1 >= block_size
    \/ \E x1, x2 \in BlockOffsets(w) : x2 - x1 >= block_size

\* What the visual analysis finds: n_copy_paste block pairs correlated above
\* 0.9; sharpness_varies, density_std > density_mean * 0.5.
VisualFindings(h, w) ==
    { v \in [raises : BOOLEAN, n_copy_paste : 0..MaxCopyPaste,
             sharpness_varies : BOOLEAN] :
        /\ v.n_copy_paste > 0 => HasComparablePair(h, w)
        /\ v.raises => (v.n_copy_paste = 0 /\ ~v.sharpness_varies) }

\* TransactionAnalyzer._analyze_visual_patterns
analyze_visual_patterns(visual) ==
    IF visual.raises
    THEN [copy_paste_regions |-> <<>>, resolution_inconsistencies |-> <<>>]
    ELSE [copy_paste_regions |->
              Repeat([description |-> "Highly similar regions"],
                     visual.n_copy_paste),
          resolution_inconsistencies |->
              IF visual.sharpness_varies
              THEN << [severity |-> "medium",
                       description |->
                           "Inconsistent image sharpness across regions"] >>
              ELSE <<>>]

common_resolutions ==
    << <<1080, 1920>>, <<1080, 2400>>, <<750, 1334>>, <<828, 1792>>,
       <<1440, 2560>>, <<1080, 2280>> >>

\* np.random.randint(1, 5)
SimilarImageDraws == 1..4

\* the resolution matched in either orientation
simulate_reverse_search_either_way(size, similar) ==
    LET found_matches ==
            \E k \in 1..Len(common_resolutions) :
                \/ common_resolutions[k] = size
                \/ common_resolutions[k] = <<size[2], size[1]>>
    IN  IF found_matches
        THEN [found_matches |-> TRUE, similar_images |-> similar,
              earliest_occurrence |-> "2023-01-15",
              warnings |-> <<"Resolution matches common screenshot templates">>]
        ELSE [found_matches |-> FALSE, similar_images |-> 0,
              earliest_occurrence |-> None, warnings |-> <<>>]

\* TransactionAnalyzer._simulate_reverse_search; size is (width, height)
simulate_reverse_search(size, similar) ==
    LET found_matches ==
            \E k \in 1..Len(common_resolutions) : common_resolutions[k] = size
    IN  IF found_matches
        THEN [found_matches |-> TRUE, similar_images |-> similar,
              earliest_occurrence |-> "2023-01-15",
              warnings |-> <<"Resolution matches common screenshot templates">>]
        ELSE [found_matches |-> FALSE, similar_images |-> 0,
              earliest_occurrence |-> None, warnings |-> <<>>]

\* the risk read off the first indicator alone
calculate_overall_risk_of_first(fraud_indicators) ==
    IF fraud_indicators = <<>> THEN "low"
    ELSE IF IsHigh(fraud_indicators[1]) THEN "high"
    ELSE IF IsMedium(fraud_indicators[1]) THEN "medium"
    ELSE "low"

\* the medium band entered one indicator late
calculate_overall_risk_late_medium(fraud_indicators) ==
    LET high_risk_count == Len(SelectSeq(fraud_indicators, IsHigh))
        medium_risk_count == Len(SelectSeq(fraud_indicators, IsMedium))
    IN  IF fraud_indicators = <<>> THEN "low"
        ELSE IF high_risk_count >= 2 THEN "very_high"
        ELSE IF high_risk_count >= 1 THEN "high"
        ELSE IF medium_risk_count > 3 THEN "high"
        ELSE IF medium_risk_count >= 1 THEN "medium"
        ELSE "low"

\* TransactionAnalyzer._calculate_overall_risk
calculate_overall_risk(fraud_indicators) ==
    LET high_risk_count == Len(SelectSeq(fraud_indicators, IsHigh))
        medium_risk_count == Len(SelectSeq(fraud_indicators, IsMedium))
    IN  IF fraud_indicators = <<>> THEN "low"
        ELSE IF high_risk_count >= 2 THEN "very_high"
        ELSE IF high_risk_count >= 1 THEN "high"
        ELSE IF medium_risk_count >= 3 THEN "high"
        ELSE IF medium_risk_count >= 1 THEN "medium"
        ELSE "low"

\* the text indicators gathered before the metadata indicator
collected_text_first(metadata_analysis, text_analysis, pattern_analysis) ==
    (IF text_analysis.suspicious_text
     THEN text_analysis.fraud_indicators ELSE <<>>)
    \o (IF metadata_analysis.suspicious
        THEN <<Indicator("metadata", "medium", metadata_analysis.reason)>>
        ELSE <<>>)
    \o [k \in 1..Len(pattern_analysis.copy_paste_regions) |->
          Indicator("copy_paste", "high",
                    "Potential copy-paste detected: "
                    \o pattern_analysis.copy_paste_regions[k].description)]
    \o [k \in 1..Len(pattern_analysis.resolution_inconsistencies) |->
          Indicator("resolution",
                    pattern_analysis.resolution_inconsistencies[k].severity,
                    pattern_analysis.resolution_inconsistencies[k].description)]

\* lines 70-97: the indicators gathered before the recommendations are made
collected_indicators(metadata_analysis, text_analysis, pattern_analysis) ==
    (IF metadata_analysis.suspicious
     THEN <<Indicator("metadata", "medium", metadata_analysis.reason)>>
     ELSE <<>>)
    \o (IF text_analysis.suspicious_text
        THEN text_analysis.fraud_indicators ELSE <<>>)
    \o [k \in 1..Len(pattern_analysis.copy_paste_regions) |->
          Indicator("copy_paste", "high",
                    "Potential copy-paste detected: "
                    \o pattern_analysis.copy_paste_regions[k].description)]
    \o [k \in 1..Len(pattern_analysis.resolution_inconsistencies) |->
          Indicator("resolution",
                    pattern_analysis.resolution_inconsistencies[k].severity,
                    pattern_analysis.resolution_inconsistencies[k].description)]

\* The recommendation lines, without the pictograph that leads some of them
\* in the source.
NoMajorLine == "Screenshot appears authentic with no major fraud indicators detected"

CountLine(n) == ToString(n) \o " potential fraud indicators detected"

HighRiskLine == "HIGH RISK: Manual verification strongly recommended"

VerifyLine == "Verify transaction details through official banking channels"

CrossCheckLine == "Cross-check with actual bank/payment app statements"

ReverseLine == "Similar images found online - verify authenticity carefully"

\* lines 99-107: made from the indicators gathered so far
generate_recommendations(fraud_indicators) ==
    IF Len(fraud_indicators) = 0
    THEN <<NoMajorLine>>
    ELSE <<CountLine(Len(fraud_indicators))>>
         \o (IF \E k \in 1..Len(fraud_indicators) : IsHigh(fraud_indicators[k])
             THEN <<HighRiskLine>> ELSE <<>>)
         \o <<VerifyLine, CrossCheckLine>>

\* the payload carrying the risk of an empty indicator list
ErrorPayload_low_risk ==
    [error |-> "Analysis failed",
     fraud_indicators |-> <<>>,
     recommendations |-> <<"Analysis failed - manual verification required">>,
     overall_risk |-> "low"]

\* lines 131-136
ErrorPayload ==
    [error |-> "Analysis failed",
     fraud_indicators |-> <<>>,
     recommendations |-> <<"Analysis failed - manual verification required">>,
     overall_risk |-> "unknown"]

\* the reverse-search indicator put in front of the others
reverse_search_first(fraud_indicators, reverse_search) ==
    (IF reverse_search.found_matches
     THEN <<Indicator("reverse_search", "high",
             "Similar images found online - possible template reuse")>>
     ELSE <<>>) \o fraud_indicators

\* lines 110-115: fraud_indicators.append of the reverse-search indicator
append_reverse_search(fraud_indicators, reverse_search) ==
    fraud_indicators
    \o (IF reverse_search.found_matches
        THEN <<Indicator("reverse_search", "high",
                "Similar images found online - possible template reuse")>>
        ELSE <<>>)

\* lines 65-127: what analyze_transaction_screenshot makes of the four analyses
assemble_analysis(metadata_analysis, text_analysis, pattern_analysis, reverse_search) ==
    LET collected == collected_indicators(metadata_analysis, text_analysis,
                                          pattern_analysis)
        recommendations == generate_recommendations(collected)
        fraud_indicators == append_reverse_search(collected, reverse_search)
    IN  [metadata_analysis |-> metadata_analysis,
         text_analysis |-> text_analysis,
         pattern_analysis |-> pattern_analysis,
         reverse_search |-> reverse_search,
         fraud_indicators |-> fraud_indicators,
         recommendations |->
             recommendations
             \o (IF reverse_search.found_matches
                 THEN <<ReverseLine>> ELSE <<>>),
         overall_risk |-> calculate_overall_risk(fraud_indicators)]

\* TransactionAnalyzer.analyze_transaction_screenshot; raises: some statement
\* of the try block (the colour conversion of line 57 first of all) raises
analyze_transaction_screenshot(img, raises, text, visual, similar) ==
    IF raises THEN ErrorPayload
    ELSE assemble_analysis(txn_analyze_metadata(img),
                           analyze_text_content(text),
                           analyze_visual_patterns(visual),
                           simulate_reverse_search(img.size, similar))

(***************************************************************************)
(* detector.py: ImageAuthenticityDetector.detect_tampering.                *)
(***************************************************************************)
\* the larger of the two taken
high_risk_confidence_max(confidence) == Max((confidence * 3) \div 10, 50000)

\* line 200: min(result['confidence'] * 0.3, 0.5)
high_risk_confidence(confidence) == Min((confidence * 3) \div 10, 50000)

\* two indicators already count as several
is_moderate_risk_from_two(fraud_count) == fraud_count >= 2

\* line 203: elif fraud_count > 2
is_moderate_risk(fraud_count) == fraud_count > 2

\* the moderate reduction turned into a rise
moderate_risk_confidence_raised(confidence) == (confidence * 16) \div 10

\* line 205: result['confidence'] * 0.6
moderate_risk_confidence(confidence) == (confidence * 6) \div 10

\* lines 186-206: merge and reconcile
reconcile(basic, ta) ==
    LET merged == [transaction_analysis |-> ta,
                   analysis_type |-> "comprehensive"] @@ basic
        fraud_count == Len(ta.fraud_indicators)
        high_risk_count == Len(SelectSeq(ta.fraud_indicators, IsHigh))
    IN  IF "fraud_indicators" \notin DOMAIN ta THEN merged
        ELSE IF high_risk_count > 0
        THEN [merged EXCEPT
                !.confidence = high_risk_confidence(@),
                !.is_authentic = FALSE,
                !.details = "HIGH RISK: " \o ToString(high_risk_count)
                            \o " critical fraud indicators detected"]
        ELSE IF is_moderate_risk(fraud_count)
        THEN [merged EXCEPT
                !.confidence = moderate_risk_confidence(@),
                !.details = "MODERATE RISK: " \o ToString(fraud_count)
                            \o " suspicious patterns found"]
        ELSE merged

\* lines 207-209
basic_only(basic) == [analysis_type |-> "basic"] @@ basic

(***************************************************************************)
(* The inputs of one request.                                              *)
(***************************************************************************)
\* image.size, (width, height): a common screenshot resolution, the same
\* transposed, an image of 3x3 noise blocks' area and one of 2x2
Sizes == { <<1080, 1920>>, <<1920, 1080>>, <<96, 96>>, <<64, 64>> }

\* embedded tag maps in iteration order; the empty map also stands for an
\* image object without _getexif and for _getexif() returning None
ExifMaps ==
    { <<>>,
      << <<"Make", "Google Pixel">>, <<"DateTime", "2023:01:15 10:00:00">> >>,
      << <<"Software", "Adobe Photoshop CS6">>,
         <<"DateTime", "2023:01:15 10:00:00">>,
         <<"DateTimeOriginal", "2023:01:14 09:00:00">> >>,
      << <<"ImageDescription", "MS Paint">>, <<"Software", "GIMP 2.10">> >> }

\* exif_raises: reading the embedded tags raises (both metadata extractors
\* read them the same way); only the JPEG plugin offers _getexif
Images ==
    { img \in [format : {"JPEG", "PNG"}, size : Sizes, exif : ExifMaps,
               exif_raises : BOOLEAN] :
        /\ img.format = "PNG" => (img.exif = <<>> /\ ~img.exif_raises)
        /\ img.exif_raises => img.exif = <<>> }

\* The 'image' part of the request: absent, with an empty filename, with a
\* filename of another extension, a file PIL cannot identify, a file whose
\* header PIL identifies but whose pixel data is cut short, a sound image.
\* Image.open reads the header only; the pixel data is decoded by the first
\* operation that needs it (convert, np.array).
Uploads == {"no_file", "no_name", "bad_type", "unidentified", "truncated", "image"}

\* image.convert('RGB'): a new image of the same size without the file's
\* format and tags
convert(img) ==
    [format |-> "none", size |-> img.size, exif |-> <<>>, exif_raises |-> FALSE]

Height(img) == img.size[2]

Width(img) == img.size[1]

SideIdle ==
    /\ gray = None
    /\ visual_runs = <<>>
    /\ ocr_text = <<>>
    /\ text_result = None

NoSignals ==
    [jpeg_compression |-> None, noise_patterns |-> None,
     edge_consistency |-> None, metadata |-> None]

Init ==
    /\ pc = "request"
    /\ upload \in Uploads
    /\ image = None
    /\ analyze_transactions \in BOOLEAN
    /\ signals = NoSignals
    /\ basic_result = None
    /\ transaction_analysis = None
    /\ result = None
    /\ risk_input = <<>>
    /\ risk_output = "none"
    /\ raised = {}
    /\ response = None
    /\ SideIdle

(***************************************************************************)
(* app.py: analyze_image up to the call of the detector.                   *)
(***************************************************************************)
Answer(status, body) == [status |-> status, body |-> body]

\* lines 98-112
RejectUpload ==
    /\ pc = "request"
    /\ upload \in {"no_file", "no_name", "bad_type"}
    /\ response' =
         Answer(400, [error |->
             CASE upload = "no_file" -> "No image file provided"
               [] upload = "no_name" -> "No file selected"
               [] upload = "bad_type"
                    -> "Invalid file type. Only PNG, JPG, JPEG allowed"])
    /\ pc' = "responded"
    /\ UNCHANGED <<image, analyze_transactions, signals, basic_result,
                   transaction_analysis, result, risk_input, risk_output,
                   raised, side>>

\* preprocess_image, lines 59-69: the file is identified; an image of
\* another mode than RGB is converted, which decodes it
PreprocessImage ==
    /\ pc = "request"
    /\ upload \in {"truncated", "image"}
    /\ \E opened \in Images, is_rgb \in BOOLEAN :
          /\ upload = "truncated" => is_rgb
          /\ image' = IF is_rgb THEN opened ELSE convert(opened)
    /\ pc' = "start"
    /\ UNCHANGED <<analyze_transactions, signals, basic_result,
                   transaction_analysis, result, risk_input, risk_output,
                   raised, response, side>>

\* preprocess_image, lines 70-72, and analyze_image, lines 205-207: Image.open
\* or convert raises, the ValueError made of it is answered with 400
PreprocessFailed ==
    /\ pc = "request"
    /\ upload \in {"unidentified", "truncated"}
    /\ response' =
         Answer(400, [error |->
             IF upload = "unidentified"
             THEN "Invalid image file: cannot identify image file"
             ELSE "Invalid image file: image file is truncated"])
    /\ pc' = "responded"
    /\ UNCHANGED <<image, analyze_transactions, signals, basic_result,
                   transaction_analysis, result, risk_input, risk_output,
                   raised, side>>

(***************************************************************************)
(* The steps of ImageAuthenticityDetector.detect_tampering.                *)
(***************************************************************************)
\* simple_detector.py lines 41-47: the four extractors run
RunExtractors ==
    /\ pc = "start"
    \* np.array(image) of line 41 decoded the pixel data
    /\ upload # "truncated"
    /\ \E jpeg_raises, noise_raises, edge_raises \in BOOLEAN,
          hf_variance \in HfVariances, stats \in NoiseStats,
          contours \in ContourAreas :
          \* nothing before the format test of line 118 can raise
          /\ jpeg_raises => image.format = "JPEG"
          /\ raised' = (IF jpeg_raises THEN {"jpeg_compression"} ELSE {})
                        \cup (IF noise_raises THEN {"noise_patterns"} ELSE {})
                        \cup (IF edge_raises THEN {"edge_consistency"} ELSE {})
                        \cup (IF image.exif_raises THEN {"metadata"} ELSE {})
          /\ signals' =
            [jpeg_compression |->
                 analyze_jpeg_compression(image.format, jpeg_raises, hf_variance),
             noise_patterns |->
                 analyze_noise_patterns(Height(image), Width(image),
                                        noise_raises, stats),
             edge_consistency |-> analyze_edge_consistency(edge_raises, contours),
             metadata |-> simple_analyze_metadata(image.exif, image.exif_raises)]
    /\ pc' = "extracted"
    /\ UNCHANGED <<image, analyze_transactions, basic_result,
                   transaction_analysis, result, risk_input, risk_output, response, side>>

\* simple_detector.py lines 49-108: fusion into the basic result
FuseSignals ==
    /\ pc = "extracted"
    /\ \E draw \in ConfidenceDraws :
          basic_result' =
            simple_detect_tampering(Height(image), Width(image), signals, draw)
    /\ pc' = "basic_done"
    /\ UNCHANGED <<image, analyze_transactions, signals, raised, transaction_analysis,
                   result, risk_input, risk_output, response, side>>

\* simple_detector.py lines 110-112 and detector.py lines 213-215: the basic
\* scorer raises (the colour conversion of line 41) and so does the orchestrator
DetectionFailed ==
    /\ pc = "start"
    /\ pc' = "failed"
    /\ result' = [raised |-> "Detection failed"]
    /\ UNCHANGED <<image, analyze_transactions, signals, raised, basic_result,
                   transaction_analysis, risk_input, risk_output, response, side>>

\* the chain run whatever analyze_transactions says
AnalyzeTransaction_unconditional ==
    /\ pc = "basic_done"
    /\ \E raises \in BOOLEAN, text \in TextFindings,
          visual \in VisualFindings(Height(image), Width(image)),
          similar \in SimilarImageDraws :
          /\ transaction_analysis' =
               analyze_transaction_screenshot(image, raises, text, visual, similar)
          /\ pc' = IF raises THEN "chain_failed" ELSE "chain_done"
    /\ UNCHANGED <<image, analyze_transactions, signals, raised, basic_result, result,
                   risk_input, risk_output, response, side>>

\* detector.py line 183; chain_failed: the except branch of lines 129-136 ran
AnalyzeTransaction ==
    /\ pc = "basic_done"
    /\ analyze_transactions
    /\ \E raises \in BOOLEAN, text \in TextFindings,
          visual \in VisualFindings(Height(image), Width(image)),
          similar \in SimilarImageDraws :
          /\ transaction_analysis' =
               analyze_transaction_screenshot(image, raises, text, visual, similar)
          /\ pc' = IF raises THEN "chain_failed" ELSE "chain_done"
    /\ UNCHANGED <<image, analyze_transactions, signals, raised, basic_result, result,
                   risk_input, risk_output, response, side>>

\* detector.py lines 186-206, 211
Reconcile ==
    /\ pc \in {"chain_done", "chain_failed"}
    /\ result' = reconcile(basic_result, transaction_analysis)
    /\ pc' = "done"
    /\ UNCHANGED <<image, analyze_transactions, signals, raised, basic_result,
                   transaction_analysis, risk_input, risk_output, response, side>>

\* detector.py lines 207-211: result is basic_result itself, with the key added
BasicOnly ==
    /\ pc = "basic_done"
    /\ ~analyze_transactions
    /\ result' = basic_only(basic_result)
    /\ basic_result' = result'
    /\ pc' = "done"
    /\ UNCHANGED <<image, analyze_transactions, signals, raised, transaction_analysis,
                   risk_input, risk_output, response, side>>

(***************************************************************************)
(* app.py: analyze_image after the call of the detector.                   *)
(***************************************************************************)
\* dict.get(key, default)
Get(dict, key, default) == IF key \in DOMAIN dict THEN dict[key] ELSE default

\* lines 153-178
suspicious_regions(pattern_analysis) ==
    LET copy_paste_regions == Get(pattern_analysis, "copy_paste_regions", <<>>)
        resolution_inconsistencies ==
            Get(pattern_analysis, "resolution_inconsistencies", <<>>)
    IN  [k \in 1..Len(copy_paste_regions) |->
           [type |-> "copy_paste",
            description |-> copy_paste_regions[k].description]]
        \o [k \in 1..Len(resolution_inconsistencies) |->
              [type |-> "resolution_inconsistency",
               severity |-> resolution_inconsistencies[k].severity,
               description |-> resolution_inconsistencies[k].description]]

\* lines 133-193, without processing_time
prepare_response(res) ==
    LET transaction_data == res.transaction_analysis
        reverse_search == Get(transaction_data, "reverse_search", <<>>)
    IN  [result |-> IF res.is_authentic THEN "Original" ELSE "Edited",
         confidence |-> res.confidence,
         analysis_type |-> res.analysis_type,
         details |-> res.details]
        @@ (IF "tampered_regions" \in DOMAIN res
            THEN "tampered_regions" :> res.tampered_regions ELSE <<>>)
        @@ (IF "transaction_analysis" \in DOMAIN res
            THEN ("transaction_analysis" :>
                    [metadata_analysis |->
                         Get(transaction_data, "metadata_analysis", <<>>),
                     text_analysis |->
                         Get(transaction_data, "text_analysis", <<>>),
                     fraud_indicators |->
                         Get(transaction_data, "fraud_indicators", <<>>),
                     recommendations |->
                         Get(transaction_data, "recommendations", <<>>),
                     suspicious_regions |->
                         suspicious_regions(
                             Get(transaction_data, "pattern_analysis", <<>>))])
                 @@ (IF Get(reverse_search, "found_matches", FALSE)
                     THEN "reverse_search" :>
                            [found_matches |-> TRUE,
                             similar_images |-> reverse_search.similar_images,
                             earliest_occurrence |->
                                 reverse_search.earliest_occurrence,
                             warnings |-> reverse_search.warnings]
                     ELSE <<>>)
            ELSE <<>>)

\* lines 126-203: the detector returned
Respond ==
    /\ pc = "done"
    /\ response' = Answer(200, prepare_response(result))
    /\ pc' = "responded"
    /\ UNCHANGED <<image, analyze_transactions, signals, basic_result,
                   transaction_analysis, result, risk_input, risk_output,
                   raised, side>>

\* lines 209-212: the detector raised
RespondFailure ==
    /\ pc = "failed"
    /\ response' = Answer(500, [error |-> "Internal server error during analysis"])
    /\ pc' = "responded"
    /\ UNCHANGED <<image, analyze_transactions, signals, basic_result,
                   transaction_analysis, result, risk_input, risk_output,
                   raised, side>>

Next ==
    \/ RejectUpload
    \/ PreprocessImage
    \/ PreprocessFailed
    \/ RunExtractors
    \/ FuseSignals
    \/ DetectionFailed
    \/ AnalyzeTransaction
    \/ Reconcile
    \/ BasicOnly
    \/ Respond
    \/ RespondFailure

Spec == Init /\ [][Next]_vars

(***************************************************************************)
(* The fusion on its own, over any four signals of the Signal contract     *)
(* (the extractors stubbed).                                               *)
(***************************************************************************)
FusionScores == {0, 10, 70, 100}

FusionSignals(reason) ==
    [suspicious : BOOLEAN, score : FusionScores, reason : {reason}]

InitFusion ==
    /\ pc = "extracted"
    /\ upload = "image"
    /\ image \in [format : {"JPEG"}, size : Sizes, exif : {<<>>},
                  exif_raises : {FALSE}]
    /\ analyze_transactions = FALSE
    /\ signals \in [jpeg_compression : FusionSignals("jpeg"),
                    noise_patterns : FusionSignals("noise"),
                    edge_consistency : FusionSignals("edge"),
                    metadata : FusionSignals("metadata")]
    /\ basic_result = None
    /\ transaction_analysis = None
    /\ result = None
    /\ risk_input = <<>>
    /\ risk_output = "none"
    /\ raised = {}
    /\ response = None
    /\ SideIdle

SpecFusion == InitFusion /\ [][FuseSignals]_vars

(***************************************************************************)
(* The risk aggregator on its own, over any list of indicators.            *)
(***************************************************************************)
Severities == {"low", "medium", "high"}

IndicatorLists ==
    UNION { [1..n -> { Indicator("any", sev, "") : sev \in Severities }] :
              n \in 0..MaxIndicators }

InitRisk ==
    /\ pc = "risk"
    /\ upload = "image"
    /\ image = [format |-> "PNG", size |-> <<64, 64>>, exif |-> <<>>,
                exif_raises |-> FALSE]
    /\ analyze_transactions = FALSE
    /\ signals = NoSignals
    /\ basic_result = None
    /\ transaction_analysis = None
    /\ result = None
    /\ risk_input \in IndicatorLists
    /\ risk_output = "none"
    /\ raised = {}
    /\ response = None
    /\ SideIdle

CalculateOverallRisk ==
    /\ pc = "risk"
    /\ risk_output' = calculate_overall_risk(risk_input)
    /\ pc' = "risk_done"
    /\ UNCHANGED <<image, analyze_transactions, signals, basic_result,
                   transaction_analysis, result, risk_input, raised,
                   response, side>>

SpecRisk == InitRisk /\ [][CalculateOverallRisk]_vars

(***************************************************************************)
(* _analyze_visual_patterns on its own, over pixel buffers.                *)
(* A buffer is held as its height, its width and the texture of each of    *)
(* its 16x16 cells: texture 0 is smooth, texture 1 is sharp (its pixels    *)
(* are the ones Canny marks); neither is flat.  Two 32x32 blocks cut at    *)
(* multiples of 16 correlate above 0.9 exactly when their four cells have  *)
(* the same textures.                                                      *)
(***************************************************************************)
\* runs of the analysis on one buffer
MaxRuns == 2

\* the step of the block scan, block_size // 2
cell_size == block_size \div 2

\* (width, height) of the buffers analysed
VisualSizes ==
    { <<48, 80>>, <<80, 48>>, <<80, 80>>, <<64, 64>>, <<50, 50>>, <<3, 50>> }

\* the cells that n pixels reach into
CellCount(n) == (n + cell_size - 1) \div cell_size

Buffers ==
    UNION { { [h |-> size[2], w |-> size[1],
               cells |-> [r \in 0..(CellCount(size[2]) - 1) |->
                            [c \in 0..(CellCount(size[1]) - 1) |->
                               (rowp[r] + colp[c]) % 2]]] :
              rowp \in [0..(CellCount(size[2]) - 1) -> {0, 1}],
              colp \in [0..(CellCount(size[1]) - 1) -> {0, 1}] } :
            size \in VisualSizes }

RECURSIVE Concat(_)
Concat(seqs) == IF seqs = <<>> THEN <<>> ELSE Head(seqs) \o Concat(Tail(seqs))

Abs(a) == IF a < 0 THEN -a ELSE a

\* lines 274-277: the (y, x) corners of the blocks, in scan order
Blocks(h, w) ==
    LET ny == RangeLen(0, h - block_size, block_size \div 2)
        nx == RangeLen(0, w - block_size, block_size \div 2)
    IN  [k \in 1..(ny * nx) |->
           [y |-> ((k - 1) \div nx) * (block_size \div 2),
            x |-> ((k - 1) % nx) * (block_size \div 2)]]

\* gray[i:i+block_size, j:j+block_size]
BlockPixels(buffer, b) ==
    LET r == b.y \div cell_size
        c == b.x \div cell_size
    IN  << buffer.cells[r][c], buffer.cells[r][c + 1],
           buffer.cells[r + 1][c], buffer.cells[r + 1][c + 1] >>

\* every block taken as the second of a pair
later_blocks_all(idx, n) == [i \in 1..n |-> i]

\* line 280: the indices of blocks[idx+1:]
later_blocks(idx, n) == [i \in 1..(n - idx) |-> idx + i]

\* a pair skipped when the corners are close in either axis
is_adjacent_either_axis(b1, b2) ==
    Abs(b1.y - b2.y) < block_size \/ Abs(b1.x - b2.x) < block_size

\* line 282
is_adjacent(b1, b2) ==
    Abs(b1.y - b2.y) < block_size /\ Abs(b1.x - b2.x) < block_size

\* lines 279-283: the pairs handed to matchTemplate, in the order of the loops
compared_pairs(h, w) ==
    LET blocks == Blocks(h, w)
        n == Len(blocks)
        Kept(pair) == ~is_adjacent(blocks[pair[1]], blocks[pair[2]])
        From(idx) ==
            LET later == later_blocks(idx, n)
            IN  SelectSeq([i \in 1..Len(later) |-> <<idx, later[i]>>], Kept)
    IN  Concat([idx \in 1..n |-> From(idx)])

\* lines 286-294
copy_paste_regions(buffer) ==
    LET blocks == Blocks(buffer.h, buffer.w)
        Correlated(pair) ==
            BlockPixels(buffer, blocks[pair[1]]) = BlockPixels(buffer, blocks[pair[2]])
        found == SelectSeq(compared_pairs(buffer.h, buffer.w), Correlated)
    IN  [k \in 1..Len(found) |->
           [location |-> [x1 |-> blocks[found[k][1]].x, y1 |-> blocks[found[k][1]].y,
                          x2 |-> blocks[found[k][2]].x, y2 |-> blocks[found[k][2]].y],
            size |-> [width |-> block_size, height |-> block_size]]]

\* the length of the part of [a0, a1) inside [b0, b1)
Overlap(a0, a1, b0, b1) == Max(0, Min(a1, b1) - Max(a0, b0))

\* np.sum(region > 0) for region = edges[i:i+dh, j:j+dw]
EdgePixels(buffer, i, dh, j, dw) ==
    LET rows == CellCount(buffer.h)
        cols == CellCount(buffer.w)
    IN  Sum([k \in 1..(rows * cols) |->
               LET r == (k - 1) \div cols
                   c == (k - 1) % cols
               IN  buffer.cells[r][c]
                   * Overlap(i, Min(i + dh, buffer.h),
                             r * cell_size, (r + 1) * cell_size)
                   * Overlap(j, Min(j + dw, buffer.w),
                             c * cell_size, (c + 1) * cell_size)])

\* lines 299-301: the regions edges[i:i+h//4, j:j+w//4] for i in
\* range(0, h, h//4) and j in range(0, w, w//4), a slice ending at the border
grid_regions(h, w) ==
    LET dh == h \div 4
        dw == w \div 4
        ni == RangeLen(0, h, dh)
        nj == RangeLen(0, w, dw)
    IN  [k \in 1..(ni * nj) |->
           LET i == ((k - 1) \div nj) * dh
               j == ((k - 1) % nj) * dw
           IN  [i |-> i, j |-> j,
                height |-> Min(i + dh, h) - i, width |-> Min(j + dw, w) - j]]

\* range() with a step of 0 raises ValueError
grid_raises(h, w) == h \div 4 = 0 \/ w \div 4 = 0

\* lines 299-303: the densities of the grid regions, in thousandths
edge_density_regions(buffer) ==
    LET regions == grid_regions(buffer.h, buffer.w)
    IN  [k \in 1..Len(regions) |->
           (1000 * EdgePixels(buffer, regions[k].i, buffer.h \div 4,
                              regions[k].j, buffer.w \div 4))
           \div (regions[k].height * regions[k].width)]

\* lines 259-330; density_std > density_mean * 0.5 compared on the squares
visual_patterns(buffer) ==
    LET densities == edge_density_regions(buffer)
        n == Len(densities)
    IN  IF grid_raises(buffer.h, buffer.w)
        THEN [copy_paste_regions |-> <<>>,
              resolution_inconsistencies |-> <<>>,
              visual_quality_score |-> 0]
        ELSE
        [copy_paste_regions |-> copy_paste_regions(buffer),
         resolution_inconsistencies |->
             IF n > 1 /\ 4 * (n * SumSq(densities) - Sum(densities) * Sum(densities))
                           > Sum(densities) * Sum(densities)
             THEN << [severity |-> "medium",
                      description |->
                          "Inconsistent image sharpness across regions"] >>
             ELSE <<>>,
         visual_quality_score |-> IF n > 0 THEN Sum(densities) \div n ELSE 0]

InitVisual ==
    /\ pc = "visual"
    /\ upload = "image"
    /\ image = None
    /\ analyze_transactions = TRUE
    /\ signals = NoSignals
    /\ basic_result = None
    /\ transaction_analysis = None
    /\ result = None
    /\ risk_input = <<>>
    /\ risk_output = "none"
    /\ raised = {}
    /\ response = None
    /\ gray \in Buffers
    /\ visual_runs = <<>>
    /\ ocr_text = <<>>
    /\ text_result = None

\* one call of _analyze_visual_patterns; kept beside what the call returns:
\* compared, the block pairs handed to matchTemplate; grid, the regions a
\* density was computed for; failed, whether the except branch ran
AnalyzeVisualPatterns ==
    /\ pc = "visual"
    /\ Len(visual_runs) < MaxRuns
    /\ visual_runs' = Append(visual_runs,
                             [returned |-> visual_patterns(gray),
                              compared |-> compared_pairs(gray.h, gray.w),
                              grid |-> IF grid_raises(gray.h, gray.w) THEN <<>>
                                       ELSE grid_regions(gray.h, gray.w),
                              failed |-> grid_raises(gray.h, gray.w)])
    /\ UNCHANGED <<pc, image, analyze_transactions, signals, basic_result,
                   transaction_analysis, result, risk_input, risk_output,
                   raised, response, upload, gray, ocr_text, text_result>>

SpecVisual == InitVisual /\ [][AnalyzeVisualPatterns]_vars

(***************************************************************************)
(* _analyze_text_content on its own, over texts.  A text is the sequence   *)
(* of its characters; the regular expressions are matched as re matches    *)
(* them (leftmost, greedy; none of the eight needs to backtrack), and      *)
(* findall returns the whole match of a pattern without groups and the     *)
(* tuple of its groups otherwise, '' for a group that took no part.  A     *)
(* whole match is held as a one-element tuple.                             *)
(***************************************************************************)
\* tokens in a text
MaxTokens == 4

Digits == {"0", "1", "2", "3", "4", "5", "6", "7", "8", "9"}

Whitespace == {" ", "\t", "\n"}

CurrencySigns == {"₹", "$"}

Vocabulary ==
    { <<"$", "1", "0", "0">>,
      <<" ", "p", "a", "i", "d", ",", " ">>,
      <<" ", "r", "e", "c", "e", "i", "v", "e", "d">>,
      <<"$", "1", "2", "3", "4", "5", "6", "7">>,
      <<"₹", "1", ",", "0", "0", "0", ".", "5", "0">>,
      <<" ", "1", "2", "/", "0", "1", "/", "2", "0", "2", "4", " ", "1", "0", ":", "3", "0">> }

\* the texts the OCR hands over: up to MaxTokens tokens in a row
Texts ==
    { Concat(tokens) :
        tokens \in UNION { [1..n -> Vocabulary] : n \in 0..MaxTokens } }

Str(characters) == Join(characters, "")

At(text, i, class) == i <= Len(text) /\ text[i] \in class

\* the length of the run of characters of the class that starts at i
RECURSIVE RunLen(_, _, _)
RunLen(text, i, class) ==
    IF At(text, i, class) THEN 1 + RunLen(text, i + 1, class) ELSE 0

\* a match of a pattern at i: the index after it (0 when there is none) and
\* what findall reports of it
Matched(text, i, stop) == [stop |-> stop, value |-> <<Str(SubSeq(text, i, stop - 1))>>]

NoMatch == [stop |-> 0, value |-> <<>>]

\* sign \d+ ,? \d* \.? \d*  (lines 38-39)
match_currency(sign, text, i) ==
    IF ~(At(text, i, {sign}) /\ At(text, i + 1, Digits)) THEN NoMatch
    ELSE LET a == i + 1 + RunLen(text, i + 1, Digits)
             b == IF At(text, a, {","}) THEN a + 1 ELSE a
             c == b + RunLen(text, b, Digits)
             d == IF At(text, c, {"."}) THEN c + 1 ELSE c
         IN  Matched(text, i, d + RunLen(text, d, Digits))

\* (,\d{3})* from a on: the index after its last repetition
RECURSIVE ThousandsFrom(_, _)
ThousandsFrom(text, a) ==
    IF At(text, a, {","}) /\ RunLen(text, a + 1, Digits) >= 3
    THEN ThousandsFrom(text, a + 4) ELSE a

\* the general number pattern reporting its whole match
match_number_whole(text, i) ==
    IF ~At(text, i, Digits) THEN NoMatch
    ELSE LET a == i + Min(3, RunLen(text, i, Digits))
             b == ThousandsFrom(text, a)
             c == IF At(text, b, {"."}) /\ RunLen(text, b + 1, Digits) >= 2
                  THEN b + 3 ELSE b
         IN  Matched(text, i, c)

\* \d{1,3} (,\d{3})* (\.\d{2})?  (line 40): findall reports the two groups
match_number(text, i) ==
    IF ~At(text, i, Digits) THEN NoMatch
    ELSE LET a == i + Min(3, RunLen(text, i, Digits))
             b == ThousandsFrom(text, a)
             c == IF At(text, b, {"."}) /\ RunLen(text, b + 1, Digits) >= 2
                  THEN b + 3 ELSE b
         IN  [stop |-> c,
              value |-> << IF b > a THEN Str(SubSeq(text, b - 4, b - 1)) ELSE "",
                           IF c > b THEN Str(SubSeq(text, b, c - 1)) ELSE "" >>]

\* \d{2} [-/] \d{2} [-/] \d{4}  (line 41)
match_date(text, i) ==
    IF /\ \A k \in {0, 1, 3, 4, 6, 7, 8, 9} : At(text, i + k, Digits)
       /\ \A k \in {2, 5} : At(text, i + k, {"-", "/"})
    THEN Matched(text, i, i + 10) ELSE NoMatch

\* \d{2} : \d{2}  (line 42)
match_time(text, i) ==
    IF /\ \A k \in {0, 1, 3, 4} : At(text, i + k, Digits)
       /\ At(text, i + 2, {":"})
    THEN Matched(text, i, i + 5) ELSE NoMatch

\* [sign] \s* \d+ [,.]? \d*  (line 220)
match_amount(text, i) ==
    LET digits == i + 1 + RunLen(text, i + 1, Whitespace)
    IN  IF ~(At(text, i, CurrencySigns) /\ At(text, digits, Digits)) THEN NoMatch
        ELSE LET a == digits + RunLen(text, digits, Digits)
                 b == IF At(text, a, {",", "."}) THEN a + 1 ELSE a
             IN  Matched(text, i, b + RunLen(text, b, Digits))

\* ([,.]\d+)* from a on: where its last repetition starts (0 when it has
\* none) and the index after it
RECURSIVE SeparatedFrom(_, _, _)
SeparatedFrom(text, start, a) ==
    IF At(text, a, {",", "."}) /\ At(text, a + 1, Digits)
    THEN SeparatedFrom(text, a, a + 1 + RunLen(text, a + 1, Digits))
    ELSE <<start, a>>

\* [sign] \s* \d+ ([,.]\d+)*  (line 223): findall reports the group
match_format(text, i) ==
    LET digits == i + 1 + RunLen(text, i + 1, Whitespace)
    IN  IF ~(At(text, i, CurrencySigns) /\ At(text, digits, Digits)) THEN NoMatch
        ELSE LET last == SeparatedFrom(text, 0, digits + RunLen(text, digits, Digits))
             IN  [stop |-> last[2],
                  value |-> << IF last[1] = 0 THEN ""
                               ELSE Str(SubSeq(text, last[1], last[2] - 1)) >>]

\* [sign] \s* \d{7,}  (line 233)
match_very_large(text, i) ==
    LET digits == i + 1 + RunLen(text, i + 1, Whitespace)
    IN  IF At(text, i, CurrencySigns) /\ RunLen(text, digits, Digits) >= 7
        THEN Matched(text, i, digits + RunLen(text, digits, Digits))
        ELSE NoMatch

fraud_patterns == <<"dollar", "rupee", "number", "date", "time">>

Match(pattern, text, i) ==
    CASE pattern = "dollar" -> match_currency("$", text, i)
      [] pattern = "rupee" -> match_currency("₹", text, i)
      [] pattern = "number" -> match_number(text, i)
      [] pattern = "date" -> match_date(text, i)
      [] pattern = "time" -> match_time(text, i)
      [] pattern = "amount" -> match_amount(text, i)
      [] pattern = "format" -> match_format(text, i)
      [] pattern = "very_large" -> match_very_large(text, i)

\* re.findall(pattern, text[i:])
RECURSIVE FindFrom(_, _, _)
FindFrom(pattern, text, i) ==
    IF i > Len(text) THEN <<>>
    ELSE LET m == Match(pattern, text, i)
         IN  IF m.stop = 0 THEN FindFrom(pattern, text, i + 1)
             ELSE <<m.value>> \o FindFrom(pattern, text, m.stop)

findall(pattern, text) == FindFrom(pattern, text, 1)

\* repr of what findall returns
ReprItem(value) ==
    IF Len(value) = 1 THEN "'" \o value[1] \o "'"
    ELSE "(" \o Join([k \in 1..Len(value) |-> "'" \o value[k] \o "'"], ", ") \o ")"

Repr(matches) ==
    "[" \o Join([k \in 1..Len(matches) |-> ReprItem(matches[k])], ", ") \o "]"

\* a value counted as a duplicate from its third occurrence on
has_duplicates_from_third(matches) ==
    Cardinality({ matches[k] : k \in 1..Len(matches) }) + 1 < Len(matches)

\* line 211: len(set(matches)) < len(matches)
has_duplicates(matches) ==
    Cardinality({ matches[k] : k \in 1..Len(matches) }) < Len(matches)

\* lines 207-217
duplicate_indicators(text) ==
    Concat([p \in 1..Len(fraud_patterns) |->
              LET matches == findall(fraud_patterns[p], text)
              IN  IF matches # <<>> /\ has_duplicates(matches)
                  THEN <<Indicator("duplicate_amounts", "high",
                                   "Duplicate amounts detected: " \o Repr(matches))>>
                  ELSE <<>>])

\* lines 220-230
has_inconsistent_formatting(text) ==
    LET formats == findall("format", text)
    IN  /\ Len(findall("amount", text)) > 1
        /\ Cardinality({ formats[k] : k \in 1..Len(formats) }) > 1

\* TransactionAnalyzer._analyze_text_content on the text the OCR returned;
\* raises: the conversion or the OCR raises
text_content(text, raises) ==
    LET duplicates == duplicate_indicators(text)
        inconsistent == has_inconsistent_formatting(text)
        very_large_amounts == findall("very_large", text)
    IN  IF raises
        THEN [suspicious_text |-> FALSE, fraud_indicators |-> <<>>]
        ELSE [suspicious_text |-> duplicates # <<>> \/ inconsistent,
              fraud_indicators |->
                  duplicates
                  \o (IF inconsistent
                      THEN <<Indicator("inconsistent_formatting", "medium",
                                       "Inconsistent amount formatting detected")>>
                      ELSE <<>>)
                  \o (IF very_large_amounts # <<>>
                      THEN <<Indicator("unrealistic_amount", "medium",
                                       "Unusually large amounts: "
                                       \o Repr(very_large_amounts))>>
                      ELSE <<>>)]

\* images the other analyzers of the chain find little in: one with camera
\* tags, one without tags
TextImages ==
    { img \in Images : /\ img.format = "JPEG" /\ img.size = <<96, 96>>
                       /\ ~img.exif_raises
                       /\ \A k \in 1..Len(img.exif) :
                             ~NamesEditingSoftware(img.exif[k][2]) }

QuietSignals(img) ==
    [jpeg_compression |-> Signal(FALSE, 10, "Normal compression patterns"),
     noise_patterns |-> Signal(FALSE, 10, "Consistent noise patterns"),
     edge_consistency |-> Signal(FALSE, 10, "Consistent edge patterns"),
     metadata |-> simple_analyze_metadata(img.exif, FALSE)]

InitText ==
    /\ pc = "basic_done"
    /\ upload = "image"
    /\ image \in TextImages
    /\ analyze_transactions = TRUE
    /\ signals = QuietSignals(image)
    /\ basic_result = simple_detect_tampering(Height(image), Width(image), signals, 80000)
    /\ transaction_analysis = None
    /\ result = None
    /\ risk_input = <<>>
    /\ risk_output = "none"
    /\ raised = {}
    /\ response = None
    /\ gray = None
    /\ visual_runs = <<>>
    /\ ocr_text \in Texts
    /\ text_result = None

\* analyze_transaction_screenshot with the text analysis done on ocr_text
AnalyzeTextInChain ==
    /\ pc = "basic_done"
    /\ LET returned == text_content(ocr_text, FALSE)
       IN  \E raises \in BOOLEAN,
              visual \in VisualFindings(Height(image), Width(image)) :
              /\ ~visual.raises /\ visual.n_copy_paste = 0
              /\ raised' = IF raises THEN {"text_content"} ELSE {}
              /\ text_result' =
                   IF raises THEN text_content(ocr_text, TRUE) ELSE returned
              /\ transaction_analysis' =
                   assemble_analysis(txn_analyze_metadata(image), text_result',
                                     analyze_visual_patterns(visual),
                                     simulate_reverse_search(image.size, 1))
    /\ pc' = "chain_done"
    /\ UNCHANGED <<image, analyze_transactions, signals, basic_result, result,
                   risk_input, risk_output, response, upload, gray, visual_runs,
                   ocr_text>>

SpecText == InitText /\ [][AnalyzeTextInChain \/ Reconcile]_vars

(***************************************************************************)
(* Properties.                                                             *)
(***************************************************************************)
CountOf(indicators, severity) ==
    Cardinality({ k \in 1..Len(indicators) : indicators[k].severity = severity })

ChainRan == pc \in {"chain_done", "chain_failed", "done"} /\ analyze_transactions

Finished == pc = "done" /\ analyze_transactions

\* C1: the overall risk depends only on the numbers of high and medium
\* indicators: very_high if high >= 2, else high if high >= 1 or medium >= 3,
\* else medium if medium >= 1, else low.
C1_RiskBands ==
    pc = "risk_done" =>
        LET high == CountOf(risk_input, "high")
            medium == CountOf(risk_input, "medium")
        IN  risk_output =
              IF high >= 2 THEN "very_high"
              ELSE IF high >= 1 \/ medium >= 3 THEN "high"
              ELSE IF medium >= 1 THEN "medium"
              ELSE "low"

C1_Witness ==
    /\ pc = "risk_done"
    /\ CountOf(risk_input, "high") = 0
    /\ CountOf(risk_input, "medium") = 3
    /\ CountOf(risk_input, "low") = 1
    /\ risk_output = "high"

\* C2: in transaction mode, a returned indicator of severity high makes the
\* final confidence min(basic confidence x 0.3, 0.5), is_authentic false and
\* details the HIGH RISK summary naming the number of high indicators.
C2_HighRiskReconciliation ==
    Finished =>
        LET high == CountOf(transaction_analysis.fraud_indicators, "high")
        IN  high > 0 =>
              /\ 10 * result.confidence = Min(3 * basic_result.confidence, 500000)
              /\ result.is_authentic = FALSE
              /\ result.details = "HIGH RISK: " \o ToString(high)
                                  \o " critical fraud indicators detected"

\* basic confidence 0.8 and one high indicator give 0.24
C2_Witness ==
    /\ Finished
    /\ CountOf(transaction_analysis.fraud_indicators, "high") = 1
    /\ basic_result.confidence = 80000
    /\ basic_result.is_authentic
    /\ result.confidence = 24000
    /\ ~result.is_authentic

\* C3: in transaction mode with no high indicator, more than two indicators
\* give confidence x 0.6 and the MODERATE RISK summary with is_authentic kept;
\* two or fewer leave confidence, details and is_authentic as the basic scorer
\* returned them.
C3_ModerateOrUntouched ==
    Finished =>
        LET indicators == transaction_analysis.fraud_indicators
        IN  CountOf(indicators, "high") = 0 =>
              /\ result.is_authentic = basic_result.is_authentic
              /\ Len(indicators) > 2 =>
                   /\ 10 * result.confidence = 6 * basic_result.confidence
                   /\ result.details = "MODERATE RISK: " \o ToString(Len(indicators))
                                       \o " suspicious patterns found"
              /\ Len(indicators) <= 2 =>
                   /\ result.confidence = basic_result.confidence
                   /\ result.details = basic_result.details

C3_Witness ==
    /\ Finished
    /\ CountOf(transaction_analysis.fraud_indicators, "high") = 0
    /\ Len(transaction_analysis.fraud_indicators) = 3
    /\ basic_result.confidence = 4500
    /\ result.confidence = 2700
    /\ result.is_authentic

AnySuspicious(sig) ==
    \/ sig.jpeg_compression.suspicious
    \/ sig.noise_patterns.suspicious
    \/ sig.edge_consistency.suspicious
    \/ sig.metadata.suspicious

\* C4: when none of the four signals is suspicious, the basic scorer returns
\* is_authentic true, a confidence within [0.75, 0.90] and the single
\* no-significant-indicators message, whatever the baseline scores.
C4_AllClear ==
    (pc = "basic_done" /\ ~AnySuspicious(signals)) =>
        /\ basic_result.is_authentic = TRUE
        /\ basic_result.confidence >= 75000
        /\ basic_result.confidence <= 90000
        /\ basic_result.details = "No significant tampering indicators detected"

C4_Witness ==
    /\ pc = "basic_done"
    /\ ~AnySuspicious(signals)
    /\ signals.jpeg_compression.score = 20
    /\ signals.noise_patterns.score = 10
    /\ signals.edge_consistency.score = 10
    /\ signals.metadata.score = 5
    /\ basic_result.confidence = 89990

WeightedSum(sig) ==
    (IF sig.jpeg_compression.suspicious THEN 30 * sig.jpeg_compression.score ELSE 0)
    + (IF sig.noise_patterns.suspicious THEN 30 * sig.noise_patterns.score ELSE 0)
    + (IF sig.edge_consistency.suspicious THEN 25 * sig.edge_consistency.score ELSE 0)
    + (IF sig.metadata.suspicious THEN 15 * sig.metadata.score ELSE 0)

SuspiciousReasons(sig) ==
    (IF sig.jpeg_compression.suspicious
     THEN <<"JPEG compression: " \o sig.jpeg_compression.reason>> ELSE <<>>)
    \o (IF sig.noise_patterns.suspicious
        THEN <<"Noise patterns: " \o sig.noise_patterns.reason>> ELSE <<>>)
    \o (IF sig.edge_consistency.suspicious
        THEN <<"Edge analysis: " \o sig.edge_consistency.reason>> ELSE <<>>)
    \o (IF sig.metadata.suspicious
        THEN <<"Metadata: " \o sig.metadata.reason>> ELSE <<>>)

\* C5: with a suspicious signal, confidence = min(sum of score x weight over
\* the suspicious signals / (0.30 + 0.30 + 0.25 + 0.15), 0.95); is_authentic
\* iff confidence < 0.4; details joins the suspicious signals' reasons in the
\* order JPEG, noise, edge, metadata.
C5_WeightedFusion ==
    (pc = "basic_done" /\ AnySuspicious(signals)) =>
        \* confidence/100000 = min(WeightedSum/10000 / (100/100), 95/100)
        /\ (30 + 30 + 25 + 15) * basic_result.confidence
             = Min(1000 * WeightedSum(signals), (30 + 30 + 25 + 15) * 95000)
        /\ basic_result.is_authentic = (basic_result.confidence < 40000)
        /\ basic_result.details = Join(SuspiciousReasons(signals), "; ")

\* a non-suspicious signal's weight divides, its score does not add
C5_Witness ==
    /\ pc = "basic_done"
    /\ signals.jpeg_compression = Signal(TRUE, 100, "jpeg")
    /\ signals.noise_patterns = Signal(FALSE, 100, "noise")
    /\ signals.edge_consistency = Signal(TRUE, 10, "edge")
    /\ signals.metadata = Signal(TRUE, 70, "metadata")
    /\ basic_result.confidence = 43000
    /\ ~basic_result.is_authentic
    /\ basic_result.details =
         "JPEG compression: jpeg; Edge analysis: edge; Metadata: metadata"

C6_Example ==
    /\ pc = "basic_done"
    /\ signals.jpeg_compression.suspicious /\ signals.jpeg_compression.score = 70
    /\ signals.noise_patterns.suspicious /\ signals.noise_patterns.score = 10
    /\ signals.edge_consistency.suspicious /\ signals.edge_consistency.score = 10
    /\ ~signals.metadata.suspicious

\* C6 as stated: scores 0.7, 0.1, 0.1, all suspicious, and a non-suspicious
\* metadata signal give a confidence of about 0.367 and is_authentic false.
C6_Original ==
    C6_Example =>
        /\ basic_result.confidence >= 36650
        /\ basic_result.confidence <= 36750
        /\ basic_result.is_authentic = FALSE

\* C6: scores 0.7, 0.1, 0.1, all suspicious, and a non-suspicious metadata
\* signal give confidence (0.7x0.3 + 0.1x0.3 + 0.1x0.25)/1.0 = 0.265 and,
\* that being below 0.4, is_authentic true.
C6_Amended ==
    C6_Example =>
        /\ basic_result.confidence = 26500
        /\ basic_result.is_authentic = TRUE

C6_Witness ==
    /\ C6_Example
    /\ signals.metadata.score = 70
    /\ basic_result.confidence = 26500
    /\ basic_result.is_authentic

ProducerRank(type) ==
    CASE type = "metadata" -> 1
      [] type \in {"duplicate_amounts", "inconsistent_formatting",
                   "unrealistic_amount"} -> 2
      [] type = "copy_paste" -> 3
      [] type = "resolution" -> 4
      [] type = "reverse_search" -> 5

TypeCount(indicators, type) ==
    Cardinality({ k \in 1..Len(indicators) : indicators[k].type = type })

\* C7: the returned fraud_indicators are ordered by producer: the metadata
\* indicator (at most one), the text indicators, one indicator per
\* copy-paste region, the resolution indicators, the reverse-search
\* indicator (at most one).
C7_ProducerOrder ==
    ChainRan =>
        LET indicators == transaction_analysis.fraud_indicators
        IN  /\ \A i, j \in 1..Len(indicators) :
                 i < j => ProducerRank(indicators[i].type)
                            <= ProducerRank(indicators[j].type)
            /\ TypeCount(indicators, "metadata") <= 1
            /\ TypeCount(indicators, "reverse_search") <= 1
            /\ "error" \notin DOMAIN transaction_analysis =>
                 TypeCount(indicators, "copy_paste")
                   = Len(transaction_analysis.pattern_analysis.copy_paste_regions)

C7_Witness ==
    /\ ChainRan
    /\ Len(transaction_analysis.fraud_indicators) = 5
    /\ \A r \in 1..5 :
         ProducerRank(transaction_analysis.fraud_indicators[r].type) = r

InSeq(x, seq) == \E k \in 1..Len(seq) : seq[k] = x

ChainSucceeded == ChainRan /\ "error" \notin DOMAIN transaction_analysis

\* C8: in a non-failed result the first recommendation is the
\* no-major-indicators line exactly when the returned fraud_indicators is
\* empty; otherwise it is the count line with the length of the returned
\* list, and the two verification-advice lines are present.
C8_FirstRecommendation ==
    ChainSucceeded =>
        LET indicators == transaction_analysis.fraud_indicators
            recommendations == transaction_analysis.recommendations
        IN  /\ (recommendations[1] = NoMajorLine) <=> (indicators = <<>>)
            /\ indicators # <<>> =>
                 /\ recommendations[1] = CountLine(Len(indicators))
                 /\ InSeq(VerifyLine, recommendations)
                 /\ InSeq(CrossCheckLine, recommendations)

\* C9: in a non-failed result the HIGH RISK escalation line is among the
\* recommendations iff a returned indicator has severity high (the
\* reverse-search indicator included), and the reverse-search line is
\* present iff reverse search found matches.
C9_EscalationLine ==
    ChainSucceeded =>
        LET indicators == transaction_analysis.fraud_indicators
            recommendations == transaction_analysis.recommendations
        IN  /\ InSeq(HighRiskLine, recommendations)
                 <=> CountOf(indicators, "high") > 0
            /\ InSeq(ReverseLine, recommendations)
                 <=> transaction_analysis.reverse_search.found_matches

\* C10: when the transaction chain raises, analyze_transaction_screenshot
\* returns exactly the error payload (error, no indicators, the single
\* manual-verification recommendation, overall_risk unknown), and the
\* orchestrator still returns a comprehensive result whose confidence,
\* is_authentic and details are the basic scorer's.
C10_ChainFailureAbsorbed ==
    /\ pc = "chain_failed" =>
         /\ DOMAIN transaction_analysis
              = {"error", "fraud_indicators", "recommendations", "overall_risk"}
         /\ transaction_analysis.fraud_indicators = <<>>
         /\ transaction_analysis.recommendations
              = <<"Analysis failed - manual verification required">>
         /\ transaction_analysis.overall_risk = "unknown"
    /\ (Finished /\ "error" \in DOMAIN transaction_analysis) =>
         /\ "raised" \notin DOMAIN result
         /\ result.analysis_type = "comprehensive"
         /\ result.transaction_analysis = transaction_analysis
         /\ result.transaction_analysis.overall_risk = "unknown"
         /\ result.confidence = basic_result.confidence
         /\ result.is_authentic = basic_result.is_authentic
         /\ result.details = basic_result.details

C10_Witness ==
    /\ Finished
    /\ "error" \in DOMAIN transaction_analysis
    /\ image.size = <<1080, 1920>>
    /\ ~basic_result.is_authentic
    /\ result.confidence = basic_result.confidence
    /\ result.confidence > 50000

Extractors == {"jpeg_compression", "noise_patterns", "edge_consistency", "metadata"}

\* C11: whichever of the four extractors fail, each failing one yields the
\* neutral signal {suspicious false, score 0, 'Analysis failed'}, the others
\* still produce their own signal, and the basic scorer returns a complete
\* result; when all four fail it is the all-clear result.
C11_ExtractorFailuresAbsorbed ==
    pc \in {"extracted", "basic_done"} =>
        /\ \A e \in raised : signals[e] = Signal(FALSE, 0, "Analysis failed")
        /\ \A e \in Extractors \ raised : signals[e].reason # "Analysis failed"
        /\ pc = "basic_done" =>
             /\ {"is_authentic", "confidence", "details", "analysis_breakdown"}
                  \subseteq DOMAIN basic_result
             /\ DOMAIN basic_result.analysis_breakdown = Extractors
             /\ basic_result.analysis_breakdown = signals
             /\ raised = Extractors =>
                  /\ basic_result.is_authentic = TRUE
                  /\ basic_result.confidence \in 75000..90000
                  /\ basic_result.details
                       = "No significant tampering indicators detected"
                  /\ "tampered_regions" \notin DOMAIN basic_result

C11_Witness ==
    /\ pc = "basic_done"
    /\ raised = {"edge_consistency", "metadata"}
    /\ signals.jpeg_compression.suspicious
    /\ signals.noise_patterns.reason = "Consistent noise patterns"
    /\ basic_result.confidence = 21000

C11_WitnessAllFail ==
    /\ pc = "basic_done"
    /\ raised = Extractors
    /\ basic_result.is_authentic

\* C16: the reverse-search stub reports a match exactly when (width, height),
\* in that order, is one of the six fixed resolutions; a match carries a count
\* in 1..4 and the date 2023-01-15, no match carries 0, no date, no warnings.
C16_ReverseSearchStub ==
    ChainSucceeded =>
        LET r == transaction_analysis.reverse_search
            six == { <<1080, 1920>>, <<1080, 2400>>, <<750, 1334>>,
                     <<828, 1792>>, <<1440, 2560>>, <<1080, 2280>> }
        IN  /\ r.found_matches <=> <<Width(image), Height(image)>> \in six
            /\ r.found_matches =>
                 /\ r.similar_images \in 1..4
                 /\ r.earliest_occurrence = "2023-01-15"
            /\ ~r.found_matches =>
                 /\ r.similar_images = 0
                 /\ r.earliest_occurrence = None
                 /\ r.warnings = <<>>

C16_Witness ==
    /\ ChainSucceeded
    /\ image.size = <<1080, 1920>>
    /\ transaction_analysis.reverse_search.found_matches
    /\ transaction_analysis.reverse_search.similar_images = 4

C16_WitnessTransposed ==
    /\ ChainSucceeded
    /\ image.size = <<1920, 1080>>
    /\ ~transaction_analysis.reverse_search.found_matches

PixelSignals == {"jpeg_compression", "noise_patterns", "edge_consistency"}

\* C17: the basic result carries tampered_regions exactly when one of the
\* three pixel signals is suspicious; it is then the one box
\* {w//4, h//4, w//3, h//3}, inside the image, whose confidence is the largest
\* of the three pixel scores, suspicious or not.
C17_TamperedRegion ==
    pc = "basic_done" =>
        LET w == Width(image)
            h == Height(image)
            present == "tampered_regions" \in DOMAIN basic_result
        IN  /\ present <=> \E e \in PixelSignals : signals[e].suspicious
            /\ present =>
                 LET regions == basic_result.tampered_regions
                     box == regions[1]
                 IN  /\ Len(regions) = 1
                     /\ box.x = w \div 4 /\ box.y = h \div 4
                     /\ box.width = w \div 3 /\ box.height = h \div 3
                     /\ box.x >= 0 /\ box.x + box.width <= w
                     /\ box.y >= 0 /\ box.y + box.height <= h
                     /\ \E e \in PixelSignals : box.confidence = signals[e].score
                     /\ \A e \in PixelSignals : box.confidence >= signals[e].score

\* the largest score belongs to a signal that is not suspicious
C17_Witness ==
    /\ pc = "basic_done"
    /\ image.size = <<1080, 1920>>
    /\ signals.jpeg_compression.suspicious /\ signals.jpeg_compression.score = 10
    /\ ~signals.noise_patterns.suspicious /\ signals.noise_patterns.score = 100
    /\ ~signals.edge_consistency.suspicious
    /\ basic_result.tampered_regions[1].confidence = 100
    /\ basic_result.tampered_regions[1].x = 270

C17_WitnessMetadataOnly ==
    /\ pc = "basic_done"
    /\ signals.metadata.suspicious
    /\ \A e \in PixelSignals : ~signals[e].suspicious
    /\ "tampered_regions" \notin DOMAIN basic_result

\* C20: the transaction metadata extractor is suspicious exactly when the tag
\* map is empty or a tag value contains, whatever its case, one of the five
\* editing-tool names; the reason names the value of the first such tag in
\* iteration order, or is the 'No EXIF' message for an empty map; a failure
\* of the extraction gives a non-suspicious 'Analysis failed' and the chain
\* goes on.
C20_TxnMetadata ==
    ChainSucceeded =>
        LET m == transaction_analysis.metadata_analysis
            exif == image.exif
            Names(i) ==
                \E name \in {"photoshop", "gimp", "canva", "paint", "editor"} :
                    Contains(name, lower(exif[i][2]))
        IN  IF image.exif_raises
            THEN ~m.suspicious /\ m.reason = "Analysis failed"
            ELSE /\ m.suspicious <=> (exif = <<>> \/ \E i \in 1..Len(exif) : Names(i))
                 /\ exif = <<>> =>
                      m.reason = "No EXIF metadata found (common in edited screenshots)"
                 /\ \A i \in 1..Len(exif) :
                      (Names(i) /\ \A j \in 1..(i - 1) : ~Names(j)) =>
                          m.reason = "Image editing software detected: " \o exif[i][2]

\* two tags name an editor; the first in iteration order is reported
C20_Witness ==
    /\ ChainSucceeded
    /\ Len(image.exif) = 2
    /\ image.exif[2][2] = "GIMP 2.10"
    /\ transaction_analysis.metadata_analysis.reason
         = "Image editing software detected: MS Paint"

C20_WitnessFailure ==
    /\ ChainSucceeded
    /\ image.exif_raises
    /\ transaction_analysis.metadata_analysis.reason = "Analysis failed"

\* C18: the basic scorer runs first and the transaction chain only after it
\* and only when analyze_transactions is true; the result is 'comprehensive'
\* with a transaction_analysis key exactly when analyze_transactions is true
\* and 'basic' without that key otherwise; in basic mode confidence,
\* is_authentic and details are those the basic scorer returned.
C18_ModeSelectsChain ==
    /\ [](pc = "done" =>
            /\ "analysis_type" \in DOMAIN result
            /\ (result.analysis_type = "comprehensive") = analyze_transactions
            /\ (result.analysis_type = "basic") = ~analyze_transactions
            /\ ("transaction_analysis" \in DOMAIN result) = analyze_transactions)
    /\ [](transaction_analysis # None => analyze_transactions)
    /\ [][/\ transaction_analysis' # transaction_analysis =>
               /\ basic_result # None
               /\ basic_result' = basic_result
               /\ result = None
          /\ basic_result' # basic_result =>
               transaction_analysis = None
          /\ (result = None /\ result' # None /\ pc' = "done"
              /\ ~analyze_transactions) =>
               /\ transaction_analysis = None
               /\ result'.confidence = basic_result.confidence
               /\ result'.is_authentic = basic_result.is_authentic
               /\ result'.details = basic_result.details]_vars

C18_WitnessBasic ==
    /\ pc = "done"
    /\ ~analyze_transactions
    /\ result.analysis_type = "basic"
    /\ result.confidence = 21000
    /\ result.is_authentic

C18_Witness ==
    /\ pc = "done"
    /\ analyze_transactions
    /\ result.analysis_type = "comprehensive"
    /\ result.transaction_analysis = transaction_analysis
    /\ "fraud_indicators" \in DOMAIN transaction_analysis

\* C19: when the basic scorer raises, the orchestrator raises 'Detection
\* failed' and returns nothing, the transaction chain is not run and the
\* request is answered 500 with none of result, confidence and
\* transaction_analysis; an image that cannot be decoded is answered 400
\* before any analysis runs.
C19_FailureStatus ==
    /\ pc = "failed" =>
         /\ result = [raised |-> "Detection failed"]
         /\ basic_result = None
         /\ transaction_analysis = None
    /\ (pc = "responded" /\ "raised" \in DOMAIN result) =>
         /\ response.status = 500
         /\ DOMAIN response.body
              \cap {"result", "confidence", "transaction_analysis"} = {}
         /\ transaction_analysis = None
    /\ (pc = "responded" /\ upload \in {"unidentified", "truncated"}) =>
         /\ response.status = 400
         /\ signals = NoSignals
         /\ basic_result = None
         /\ result = None

C19_BasicScorerRaised ==
    /\ pc = "responded"
    /\ upload = "image"
    /\ analyze_transactions
    /\ response.status = 500
    /\ transaction_analysis = None

\* the corners of the blocks of a compared pair
PairCorners(pair) ==
    LET blocks == Blocks(gray.h, gray.w)
    IN  [x1 |-> blocks[pair[1]].x, y1 |-> blocks[pair[1]].y,
         x2 |-> blocks[pair[2]].x, y2 |-> blocks[pair[2]].y]

\* the corner pairs a run compared, and those it reported
ComparedCorners(run) ==
    { PairCorners(run.compared[k]) : k \in 1..Len(run.compared) }

ReportedCorners(run) ==
    { run.returned.copy_paste_regions[k].location :
        k \in 1..Len(run.returned.copy_paste_regions) }

\* C12: every pair of blocks the copy-paste search compares, and every region
\* it reports, has corners at least 32 pixels apart in both axes.
C12_ApartInBothAxes ==
    \A i \in 1..Len(visual_runs) :
        \A l \in ComparedCorners(visual_runs[i]) \cup ReportedCorners(visual_runs[i]) :
            Abs(l.x1 - l.x2) >= 32 /\ Abs(l.y1 - l.y2) >= 32

\* C12 as the code has it: the pairs compared are exactly the pairs of
\* blocks, each taken once, whose corners are at least 32 pixels apart in at
\* least one axis (the blocks that do not overlap); every region reported is
\* one of them.
C12_ApartInSomeAxis ==
    \A i \in 1..Len(visual_runs) :
        LET offsets(n) == { k * 16 : k \in 0..((n - 32 - 1) \div 16) }
            corners == { [y |-> y, x |-> x] : y \in offsets(gray.h), x \in offsets(gray.w) }
            apart == { <<a, b>> \in corners \X corners :
                         /\ (a.y < b.y \/ (a.y = b.y /\ a.x < b.x))
                         /\ (Abs(a.x - b.x) >= 32 \/ Abs(a.y - b.y) >= 32) }
        IN  /\ ComparedCorners(visual_runs[i])
                 = { [x1 |-> p[1].x, y1 |-> p[1].y, x2 |-> p[2].x, y2 |-> p[2].y] :
                       p \in apart }
            /\ ReportedCorners(visual_runs[i]) \subseteq ComparedCorners(visual_runs[i])

\* a region reported for two blocks of the same column, 32 pixels apart
C12_Witness ==
    /\ Len(visual_runs) >= 1
    /\ gray.w = 48
    /\ [x1 |-> 0, y1 |-> 0, x2 |-> 0, y2 |-> 32]
         \in ReportedCorners(visual_runs[1])

\* scan position of a block corner: rows first
ScanBefore(y1, x1, y2, x2) == y1 < y2 \/ (y1 = y2 /\ x1 < x2)

C14_DuplicateDollarAmounts ==
    (/\ text_result # None
     /\ Str(ocr_text) = "$100 paid, $100 received"
     /\ "text_content" \notin raised) =>
        /\ text_result.suspicious_text
        /\ \E k \in 1..Len(text_result.fraud_indicators) :
             text_result.fraud_indicators[k]
               = [type |-> "duplicate_amounts", severity |-> "high",
                  description |-> "Duplicate amounts detected: ['$100', '$100']"]

C14_Witness ==
    /\ text_result # None
    /\ Str(ocr_text) = "$100 paid, $100 received"
    /\ "text_content" \notin raised
    /\ Len(text_result.fraud_indicators) = 2
    /\ text_result.fraud_indicators[2].description
         = "Duplicate amounts detected: [('', ''), ('', '')]"

\* the text holds a currency sign, blanks or none, and seven digits in a row
HasSevenDigitAmount(text) ==
    \E i \in 1..Len(text) :
        /\ text[i] \in {"$", "₹"}
        /\ \E j \in (i + 1)..(Len(text) - 6) :
              /\ \A k \in (i + 1)..(j - 1) : text[k] \in {" ", "\t", "\n"}
              /\ \A k \in j..(j + 6) : text[k] \in {"0", "1", "2", "3", "4",
                                                    "5", "6", "7", "8", "9"}

\* C15: every indicator the text analyzer emits is in the assembled
\* fraud_indicators list, in the analyzer's order, and is counted by the risk
\* aggregator and by the reconciliation; a text with an amount of 7 or more
\* digits brings a medium unrealistic_amount indicator into the list.
C15_TextIndicatorsAssembled ==
    (pc \in {"chain_done", "done"} /\ text_result # None) =>
        LET emitted == text_result.fraud_indicators
            assembled == transaction_analysis.fraud_indicators
            highs == CountOf(assembled, "high")
        IN  /\ \E offset \in 0..Len(assembled) :
                 /\ offset + Len(emitted) <= Len(assembled)
                 /\ \A k \in 1..Len(emitted) : assembled[offset + k] = emitted[k]
            /\ CountOf(emitted, "high") >= 1 =>
                 transaction_analysis.overall_risk \in {"high", "very_high"}
            /\ emitted # <<>> => transaction_analysis.overall_risk # "low"
            /\ (pc = "done" /\ CountOf(emitted, "high") >= 1) =>
                 /\ ~result.is_authentic
                 /\ result.details
                      = "HIGH RISK: " \o ToString(highs)
                        \o " critical fraud indicators detected"
                 /\ highs >= CountOf(emitted, "high")
            /\ (HasSevenDigitAmount(ocr_text) /\ "text_content" \notin raised) =>
                 \E k \in 1..Len(assembled) :
                     /\ assembled[k].type = "unrealistic_amount"
                     /\ assembled[k].severity = "medium"

C15_Witness ==
    /\ pc = "done"
    /\ Str(ocr_text) = "$1234567"
    /\ "text_content" \notin raised
    /\ \E k \in 1..Len(result.transaction_analysis.fraud_indicators) :
         result.transaction_analysis.fraud_indicators[k]
           = [type |-> "unrealistic_amount", severity |-> "medium",
              description |-> "Unusually large amounts: ['$1234567']"]

\* C21: every confidence the fusion and the reconciliation produce lies in
\* [0, 1]; the reconciled confidence is never above the basic one, and with
\* a 'high' indicator present it is at most 0.5.
C21_ConfidenceBounds ==
    /\ pc \in {"basic_done", "chain_done", "chain_failed"} =>
         basic_result.confidence \in 0..100000
    /\ (pc \in {"done", "responded"} /\ "confidence" \in DOMAIN result) =>
         /\ result.confidence \in 0..100000
         /\ result.confidence <= basic_result.confidence
         /\ (/\ analyze_transactions
             /\ "fraud_indicators" \in DOMAIN transaction_analysis
             /\ CountOf(transaction_analysis.fraud_indicators, "high") >= 1) =>
              result.confidence <= 50000

\* three indicators, none of them high, on a basic confidence above 0.5
C21_Witness ==
    /\ pc = "done"
    /\ analyze_transactions
    /\ "fraud_indicators" \in DOMAIN transaction_analysis
    /\ CountOf(transaction_analysis.fraud_indicators, "high") = 0
    /\ Len(transaction_analysis.fraud_indicators) >= 3
    /\ basic_result.confidence > 50000
    /\ result.confidence = (basic_result.confidence * 6) \div 10

\* C22: the noise extractor works on the floor(h/32) x floor(w/32) complete
\* blocks of the image and answers 'Image too small for analysis' exactly
\* when there are fewer than 2 of them; a 64x64 image is analysed.
C22_NoiseBlocks ==
    (pc \in {"extracted", "basic_done"} /\ "noise_patterns" \notin raised) =>
        /\ (signals.noise_patterns.reason = "Image too small for analysis")
             <=> ((Height(image) \div 32) * (Width(image) \div 32) < 2)
        /\ image.size = <<64, 64>> =>
             signals.noise_patterns.reason # "Image too small for analysis"

\* C23: for every h and w the sharpness check computes one edge density for
\* each of exactly 16 grid cells that together cover the image, also when h
\* or w is no multiple of 4, and for h < 4 or w < 4 the check does not fail.
C23_SixteenCells ==
    \A n \in 1..Len(visual_runs) :
        LET run == visual_runs[n]
        IN  /\ ~run.failed
            /\ Len(run.grid) = 16
            /\ \A y \in 0..(gray.h - 1), x \in 0..(gray.w - 1) :
                 \E k \in 1..Len(run.grid) :
                     /\ run.grid[k].i <= y /\ y < run.grid[k].i + run.grid[k].height
                     /\ run.grid[k].j <= x /\ x < run.grid[k].j + run.grid[k].width

\* the texts a pattern matched in the text from i on, each match whole
RECURSIVE MatchedTexts(_, _, _)
MatchedTexts(pattern, text, i) ==
    IF i > Len(text) THEN <<>>
    ELSE LET m == Match(pattern, text, i)
         IN  IF m.stop = 0 THEN MatchedTexts(pattern, text, i + 1)
             ELSE <<Str(SubSeq(text, i, m.stop - 1))>>
                    \o MatchedTexts(pattern, text, m.stop)

\* the patterns some matched text of which occurs more than once
PatternsWithRepeats(text) ==
    { p \in 1..Len(fraud_patterns) :
        LET tokens == MatchedTexts(fraud_patterns[p], text, 1)
        IN  \E a, b \in 1..Len(tokens) : a # b /\ tokens[a] = tokens[b] }

DuplicateAmounts(indicators) ==
    { k \in 1..Len(indicators) : indicators[k].type = "duplicate_amounts" }

\* C24: for every text and each of the five patterns, the matcher emits a
\* duplicate_amounts indicator for the pattern if and only if some matched
\* token occurs more than once among the pattern's matches; a text whose
\* tokens are pairwise distinct yields no duplicate_amounts indicator.
C24_DuplicatesAreRepeats ==
    (text_result # None /\ "text_content" \notin raised) =>
        /\ Cardinality(DuplicateAmounts(text_result.fraud_indicators))
             = Cardinality(PatternsWithRepeats(ocr_text))
        /\ PatternsWithRepeats(ocr_text) = {} =>
             DuplicateAmounts(text_result.fraud_indicators) = {}

IsCommonResolution(size) ==
    \E k \in 1..Len(common_resolutions) : common_resolutions[k] = size

\* C25: in transaction mode with the chain not failed, an image whose
\* (width, height) is a common screenshot resolution ends with a high
\* reverse_search indicator as the last fraud indicator, overall_risk high or
\* very_high, is_authentic false and a final confidence of at most 0.285,
\* whatever the other signals are and also after the all-clear path.
C25_CommonResolutionFlagged ==
    (/\ pc = "done" /\ analyze_transactions
     /\ "error" \notin DOMAIN transaction_analysis
     /\ IsCommonResolution(image.size)) =>
        LET indicators == transaction_analysis.fraud_indicators
        IN  /\ indicators # <<>>
            /\ indicators[Len(indicators)].type = "reverse_search"
            /\ indicators[Len(indicators)].severity = "high"
            /\ transaction_analysis.overall_risk \in {"high", "very_high"}
            /\ result.is_authentic = FALSE
            /\ result.confidence <= 28500

\* the all-clear path, then other indicators before the reverse-search one
C25_Witness ==
    /\ pc = "done" /\ analyze_transactions
    /\ "error" \notin DOMAIN transaction_analysis
    /\ image.size = <<1080, 1920>>
    /\ basic_result.is_authentic
    /\ basic_result.confidence >= 75000
    /\ Len(transaction_analysis.fraud_indicators) >= 2
    /\ transaction_analysis.fraud_indicators[1].type # "reverse_search"
    /\ ~result.is_authentic
    /\ result.confidence = (basic_result.confidence * 3) \div 10

RiskRank(risk) ==
    CASE risk = "low" -> 1
      [] risk = "medium" -> 2
      [] risk = "high" -> 3
      [] risk = "very_high" -> 4
      [] OTHER -> 0

Reordered(indicators, f) == [k \in 1..Len(indicators) |-> indicators[f[k]]]

\* C26: the risk aggregator is monotone, overall_risk(L + [i]) is at least
\* overall_risk(L) in the order low < medium < high < very_high, and is the
\* same for every reordering of L; it never returns 'unknown', which appears
\* only in the chain-failure payload.
C26_RiskMonotone ==
    /\ pc = "risk_done" =>
         /\ risk_output \in {"low", "medium", "high", "very_high"}
         /\ \A sev \in Severities :
              RiskRank(calculate_overall_risk(
                           risk_input \o <<Indicator("any", sev, "")>>))
                >= RiskRank(risk_output)
         /\ \A f \in Permutations(1..Len(risk_input)) :
              calculate_overall_risk(Reordered(risk_input, f)) = risk_output
    /\ ("overall_risk" \in DOMAIN transaction_analysis
        /\ transaction_analysis.overall_risk = "unknown") =>
           transaction_analysis = ErrorPayload

\* two mediums behind a low: one more medium lifts medium to high, and the
\* list read backwards starts with another severity
C26_Witness ==
    /\ pc = "risk_done"
    /\ Len(risk_input) = 3
    /\ risk_input[1].severity = "low"
    /\ CountOf(risk_input, "medium") = 2
    /\ risk_output = "medium"
    /\ calculate_overall_risk(risk_input \o <<Indicator("any", "medium", "")>>)
         = "high"

\* the image analysed carries no tags and reading them did not fail
NoEmbeddedTags == image # None /\ image.exif = <<>> /\ ~image.exif_raises

\* C27: for an image with no embedded tags and no metadata-extraction
\* failure both metadata checks are suspicious: the basic scorer does not take
\* the all-clear override, its confidence is the weighted sum and at least
\* 0.3 x 0.15 = 0.045, details is non-empty, and in transaction mode the
\* fraud_indicators list starts with a medium metadata indicator and
\* overall_risk is not low.
C27_NoTagsNeverClear ==
    NoEmbeddedTags =>
        /\ pc \in {"extracted", "basic_done", "chain_done", "chain_failed", "done"} =>
             /\ signals.metadata.suspicious
             /\ signals.metadata.score >= 30
        /\ pc \in {"basic_done", "chain_done", "chain_failed", "done"} =>
             /\ basic_result.confidence = fused_confidence(signals)
             /\ basic_result.confidence >= 4500
             /\ basic_result.details # ""
             /\ basic_result.details
                  # "No significant tampering indicators detected"
        /\ (pc \in {"chain_done", "done"} /\ analyze_transactions
            /\ "error" \notin DOMAIN transaction_analysis) =>
             /\ transaction_analysis.metadata_analysis.suspicious
             /\ transaction_analysis.fraud_indicators # <<>>
             /\ transaction_analysis.fraud_indicators[1].type = "metadata"
             /\ transaction_analysis.fraud_indicators[1].severity = "medium"
             /\ transaction_analysis.overall_risk # "low"

\* no tags and nothing else amiss: confidence 0.045 from the metadata signal
\* alone and the metadata indicator the only one
C27_Witness ==
    /\ NoEmbeddedTags
    /\ pc = "done" /\ analyze_transactions
    /\ "error" \notin DOMAIN transaction_analysis
    /\ basic_result.confidence = 4500
    /\ basic_result.details = "Metadata: No EXIF metadata"
    /\ Len(transaction_analysis.fraud_indicators) = 1
    /\ transaction_analysis.fraud_indicators[1].type = "metadata"
    /\ transaction_analysis.overall_risk = "medium"

====
